---- MODULE Spec2Model ----
(***************************************************************************)
(* A model of json_decoder/decoder.py: the cursor (content, idx, n) of a   *)
(* JSONDecoder instance and the mutually recursive parsing routines, run   *)
(* as a machine with an explicit call stack.  A character is its code      *)
(* point (what ord() returns), a Python str is a sequence of code points.  *)
(***************************************************************************)
EXTENDS Integers, Sequences, FiniteSets, TLC

VARIABLES content, n, idx, stack, ret, status, exc, error, result, calls, past,
          ended

vars == <<content, n, idx, stack, ret, status, exc, error, result, calls, past,
          ended>>

(***************************************************************************)
(* Characters.                                                             *)
(***************************************************************************)

\* The code point of a character, written by its glyph or, for a character
\* with no printable ASCII glyph, by its name.
CodePoint(c) ==
    CASE c = "{" -> 123 [] c = "}" -> 125 [] c = "[" -> 91 [] c = "]" -> 93
      [] c = "\"" -> 34 [] c = "\\" -> 92 [] c = "," -> 44 [] c = ":" -> 58
      [] c = " " -> 32 [] c = "-" -> 45 [] c = "+" -> 43 [] c = "." -> 46
      [] c = "_" -> 95 [] c = "/" -> 47 [] c = "'" -> 39
      [] c = "0" -> 48 [] c = "1" -> 49 [] c = "2" -> 50 [] c = "3" -> 51
      [] c = "4" -> 52 [] c = "5" -> 53 [] c = "6" -> 54 [] c = "7" -> 55
      [] c = "8" -> 56 [] c = "9" -> 57
      [] c = "A" -> 65 [] c = "B" -> 66 [] c = "C" -> 67 [] c = "D" -> 68
      [] c = "E" -> 69 [] c = "F" -> 70 [] c = "G" -> 71 [] c = "T" -> 84
      [] c = "a" -> 97 [] c = "b" -> 98 [] c = "c" -> 99 [] c = "d" -> 100
      [] c = "e" -> 101 [] c = "f" -> 102 [] c = "g" -> 103 [] c = "h" -> 104
      [] c = "l" -> 108 [] c = "n" -> 110 [] c = "r" -> 114 [] c = "s" -> 115
      [] c = "t" -> 116 [] c = "u" -> 117 [] c = "x" -> 120
      [] c = "NUL" -> 0 [] c = "BS" -> 8 [] c = "TAB" -> 9 [] c = "LF" -> 10 [] c = "VT" -> 11
      [] c = "FF" -> 12 [] c = "CR" -> 13 [] c = "US" -> 31 [] c = "DEL" -> 127
      [] c = "NEL" -> 133 [] c = "NBSP" -> 160
      [] c = "SUPERSCRIPT TWO" -> 178 [] c = "ONE HALF" -> 189
      [] c = "ARABIC-INDIC THREE" -> 1635 [] c = "FULLWIDTH ONE" -> 65297
      [] c = "FULLWIDTH A" -> 65313

\* A str literal of the source, as a sequence of code points.
Str(cs) == [i \in 1..Len(cs) |-> CodePoint(cs[i])]

\* The set of the characters of a str literal.
Chars(cs) == {CodePoint(cs[i]) : i \in 1..Len(cs)}

\* _peek() and _next() return None at the end of the input.
NoneChar == -1

\* str.isdecimal(): the characters int() and float() read as a digit.  The
\* non-ASCII members are a sample of the Unicode category Nd.
IsDecimal(c) == c \in (48..57) \cup (1632..1641) \cup (65296..65305)

\* The digit value of a decimal character.
DecimalValue(c) ==
    IF c \in 48..57 THEN c - 48
    ELSE IF c \in 1632..1641 THEN c - 1632
    ELSE c - 65296

\* str.isdigit(): decimal characters and the superscript digits.
IsDigit(c) == IsDecimal(c) \/ c \in {178, 179, 185}

\* str.isnumeric(): digit characters and the vulgar fractions.
IsNumeric(c) == IsDigit(c) \/ c \in {188, 189, 190}

\* str.isspace().
IsSpace(c) ==
    c \in (9..13) \cup (28..32) \cup {133, 160, 5760} \cup (8192..8202)
          \cup {8232, 8233, 8239, 8287, 12288}

\* char in (" ", "\t", "\n", "\r")

\* IsWhitespace with the form feed.
IsWhitespaceMutant(c) == c \in {32, 9, 10, 13, 12}

IsWhitespace(c) == c \in {32, 9, 10, 13}

\* hd.isdigit() or hd.lower() in "abcdef"
IsHexDigit(c) == IsDigit(c) \/ c \in (65..70) \cup (97..102)

\* not char.isspace() and char not in (",", "}", "]")
IsDelimiter(c) == IsSpace(c) \/ c \in {44, 125, 93}

(***************************************************************************)
(* Python values.  Every value carries its type, so that the integer 1,    *)
(* the float 1.0 and True are three values.                                *)
(***************************************************************************)

PyNone == [t |-> "null", v |-> 0]
PyBool(b) == [t |-> "bool", v |-> b]
PyInt(i) == [t |-> "int", v |-> i]
PyStr(s) == [t |-> "str", v |-> s]
PyList(a) == [t |-> "array", v |-> a]
PyDict(d) == [t |-> "object", v |-> d]

\* A float, as the decimal it was read from: (-1)^neg * mant * 10^exp with
\* mant not a multiple of 10 (exp = 0 when mant = 0).  Exact for the short
\* tokens of this model, where distinct decimals are distinct doubles.
RECURSIVE Normalise(_, _, _)
Normalise(neg, mant, e) ==
    IF mant = 0 THEN [neg |-> neg, mant |-> 0, exp |-> 0]
    ELSE IF mant % 10 = 0 THEN Normalise(neg, mant \div 10, e + 1)
    ELSE [neg |-> neg, mant |-> mant, exp |-> e]

PyFloat(neg, mant, e) == [t |-> "float", v |-> Normalise(neg, mant, e)]

\* obj: dict = {}
EmptyDict == [k \in {} |-> PyNone]

\* DictSet that keeps the value a key already has.
DictSetMutant(obj, key, value) ==
    [k \in DOMAIN obj \cup {key} |-> IF k \in DOMAIN obj THEN obj[k] ELSE value]

\* obj[key] = value
DictSet(obj, key, value) ==
    [k \in DOMAIN obj \cup {key} |-> IF k = key THEN value ELSE obj[k]]

(***************************************************************************)
(* Conversions: int(s), float(s), int(s, base=16).                         *)
(***************************************************************************)

Failed == [ok |-> FALSE, v |-> PyNone]

\* A digit part of a Python numeric literal: decimal characters, with single
\* underscores allowed between two of them.
IsDigitPart(s) ==
    /\ Len(s) > 0
    /\ \A i \in 1..Len(s) :
        \/ IsDecimal(s[i])
        \/ /\ s[i] = 95
           /\ 1 < i /\ i < Len(s)
           /\ IsDecimal(s[i - 1]) /\ IsDecimal(s[i + 1])

\* The decimal characters of a digit part, underscores dropped.
RECURSIVE Digits(_)
Digits(s) ==
    IF s = <<>> THEN <<>>
    ELSE IF s[1] = 95 THEN Digits(Tail(s))
    ELSE <<s[1]>> \o Digits(Tail(s))

\* The number a sequence of decimal characters denotes.
RECURSIVE DigitsValue(_)
DigitsValue(d) ==
    IF d = <<>> THEN 0
    ELSE 10 * DigitsValue(SubSeq(d, 1, Len(d) - 1)) + DecimalValue(d[Len(d)])

IsSign(c) == c \in {43, 45}

\* s without its sign.
Unsigned(s) == IF s # <<>> /\ IsSign(s[1]) THEN Tail(s) ELSE s

IsNegative(s) == s # <<>> /\ s[1] = 45

\* int(s): an optional sign, then a digit part.
IntOf(s) ==
    IF IsDigitPart(Unsigned(s))
    THEN [ok |-> TRUE,
          v |-> PyInt((IF IsNegative(s) THEN -1 ELSE 1)
                        * DigitsValue(Digits(Unsigned(s))))]
    ELSE Failed

\* The least index of s holding one of cs, or Len(s) + 1.
RECURSIVE IndexOf(_, _, _)
IndexOf(s, cs, i) ==
    IF i > Len(s) \/ s[i] \in cs THEN i ELSE IndexOf(s, cs, i + 1)

\* float(s) for an s that holds a ".": an optional sign, a digit part and/or
\* "." and a digit part, then an optional exponent (e or E, an optional
\* sign, a digit part).  The words inf, infinity and nan hold no "." and
\* are left out.
FloatOf(s) ==
    LET u == Unsigned(s)
        ePos == IndexOf(u, {101, 69}, 1)
        body == SubSeq(u, 1, ePos - 1)
        expo == SubSeq(u, ePos + 1, Len(u))
        dot == IndexOf(body, {46}, 1)
        int == SubSeq(body, 1, dot - 1)
        frac == SubSeq(body, dot + 1, Len(body))
        bodyOk == /\ dot <= Len(body)
                  /\ int = <<>> \/ IsDigitPart(int)
                  /\ frac = <<>> \/ IsDigitPart(frac)
                  /\ int # <<>> \/ frac # <<>>
        expOk == ePos > Len(u) \/ IsDigitPart(Unsigned(expo))
        expVal == IF ePos > Len(u) THEN 0
                  ELSE (IF IsNegative(expo) THEN -1 ELSE 1)
                         * DigitsValue(Digits(Unsigned(expo)))
    IN  IF bodyOk /\ expOk
        THEN [ok |-> TRUE,
              v |-> PyFloat(IsNegative(s),
                            DigitsValue(Digits(int) \o Digits(frac)),
                            expVal - Len(Digits(frac)))]
        ELSE Failed

\* HexValue with the letters a-f given the offset of A-F.
HexValueMutant(c) ==
    IF IsDecimal(c) THEN DecimalValue(c)
    ELSE IF c \in 65..70 \/ c \in 97..102 THEN c - 55
    ELSE -1

\* The value of a character as a base-16 digit of int(): a decimal character
\* or one of a-f, A-F.  -1 for any other character.
HexValue(c) ==
    IF IsDecimal(c) THEN DecimalValue(c)
    ELSE IF c \in 65..70 THEN c - 55
    ELSE IF c \in 97..102 THEN c - 87
    ELSE -1

\* int(hex_digits, base=16) for four characters that passed the check of
\* line 160 (none is a sign, an underscore or a space).
HexOf(h) ==
    IF \A i \in 1..Len(h) : HexValue(h[i]) >= 0
    THEN [ok |-> TRUE,
          v |-> ((HexValue(h[1]) * 16 + HexValue(h[2])) * 16 + HexValue(h[3])) * 16
                  + HexValue(h[4])]
    ELSE [ok |-> FALSE, v |-> 0]

\* _ESCAPE_CHARACTERS
EscapeKeys == {34, 92, 110, 114, 116, 98, 102, 47}

\* EscapeCharacter with "n" taken for a carriage return.
EscapeCharacterMutant(c) ==
    CASE c = 34 -> 34 [] c = 92 -> 92 [] c = 110 -> 13 [] c = 114 -> 13
      [] c = 116 -> 9 [] c = 98 -> 8 [] c = 102 -> 12 [] c = 47 -> 47

EscapeCharacter(c) ==
    CASE c = 34 -> 34 [] c = 92 -> 92 [] c = 110 -> 10 [] c = 114 -> 13
      [] c = 116 -> 9 [] c = 98 -> 8 [] c = 102 -> 12 [] c = 47 -> 47

(***************************************************************************)
(* The cursor.                                                             *)
(***************************************************************************)

\* _peek(): content[idx + 1], or None at the end (TLA+ sequences start at 1).
Peek == IF idx + 1 < n THEN content[idx + 2] ELSE NoneChar



\* AfterNext that consumes nothing.
AfterNextStuck == idx

\* AfterNext that counts on at the end of the input.
AfterNextMutant == idx + 1

\* The index after _next(): one more, unless _peek() is None.
AfterNext == IF Peek # NoneChar THEN idx + 1 ELSE idx

(***************************************************************************)
(* The call stack.  A frame is a call of one routine: fn names it, pc is   *)
(* the place it resumes at, the other fields are its local variables       *)
(* (s: the str being built; hex: hex_digits; char; flag: isFloat; obj,     *)
(* key; arr; val: element, value or result).                               *)
(***************************************************************************)

Frame(fn, pc) ==
    [fn |-> fn, pc |-> pc, s |-> <<>>, hex |-> <<>>, char |-> NoneChar,
     flag |-> FALSE, obj |-> EmptyDict, key |-> <<>>, arr |-> <<>>,
     val |-> PyNone]

Top == stack[Len(stack)]

Running(fn, pc) ==
    /\ status = "running"
    /\ stack # <<>>
    /\ Top.fn = fn
    /\ Top.pc = pc

\* The stack with its top frame replaced.
WithTop(f) == [stack EXCEPT ![Len(stack)] = f]

\* The top frame becomes f and calls the routine fn.
Call(f, fn) == Append(WithTop(f), Frame(fn, "open"))

Pop == SubSeq(stack, 1, Len(stack) - 1)

\* How a call of decode() on the instance ended: with a value, or with the
\* exception e whose message is msg.
Ended(how, e, msg) == [status |-> how, exc |-> e, error |-> msg]

\* raise JSONDecodeError(msg): no routine catches it, the call of decode()
\* ends with it.
Raise(msg) ==
    /\ status' = "raised"
    /\ exc' = "JSONDecodeError"
    /\ error' = msg
    /\ stack' = <<>>
    /\ ended' = Append(ended, Ended("raised", "JSONDecodeError", msg))
    /\ UNCHANGED <<content, n, past, ret, result, calls>>

\* return v, to the calling routine.
Return(v) ==
    /\ stack' = Pop
    /\ ret' = v
    /\ UNCHANGED <<content, n, past, ended, status, exc, error, result, calls>>

\* The routine goes on in the frame f.
Goto(f) ==
    /\ stack' = WithTop(f)
    /\ UNCHANGED <<content, n, past, ended, ret, status, exc, error, result, calls>>

\* The routine calls fn and resumes in the frame f.
Invoke(f, fn) ==
    /\ stack' = Call(f, fn)
    /\ UNCHANGED <<content, n, past, ended, ret, status, exc, error, result, calls>>

NoResult == [t |-> "none", v |-> 0]

\* The calls of decode() made on one instance.
MaxCalls == 2

(***************************************************************************)
(* decode()                                                                *)
(***************************************************************************)

\* DecodeCall on an instance that sets its cursor back for each call.
DecodeCallMutant ==
    /\ status # "running"
    /\ calls < MaxCalls
    /\ calls' = calls + 1
    /\ status' = "running"
    /\ exc' = ""
    /\ error' = ""
    /\ result' = NoResult
    /\ stack' = <<Frame("decode", "parse"), Frame("skip_whitespace", "open")>>
    /\ idx' = -1
    /\ UNCHANGED <<content, n, past, ended, ret>>

\* A caller calls decode() on the instance: self._skip_whitespace().
DecodeCall ==
    /\ status # "running"
    /\ calls < MaxCalls
    /\ calls' = calls + 1
    /\ status' = "running"
    /\ exc' = ""
    /\ error' = ""
    /\ result' = NoResult
    /\ stack' = <<Frame("decode", "parse"), Frame("skip_whitespace", "open")>>
    /\ UNCHANGED <<content, n, past, ended, idx, ret>>

\* result = self._parse_one()
DecodeParseOne ==
    /\ Running("decode", "parse")
    /\ Invoke([Top EXCEPT !.pc = "trail"], "parse_one")
    /\ UNCHANGED idx

\* self._skip_whitespace(), with result set.
DecodeTrail ==
    /\ Running("decode", "trail")
    /\ Invoke([Top EXCEPT !.pc = "end", !.val = ret], "skip_whitespace")
    /\ UNCHANGED idx

\* DecodeEnd without the check of what is left.
DecodeEndMutant ==
    /\ Running("decode", "end")
    /\ status' = "returned"
    /\ result' = Top.val
    /\ stack' = <<>>
    /\ ended' = Append(ended, Ended("returned", "", ""))
    /\ UNCHANGED <<content, n, past, idx, ret, exc, error, calls>>

\* char = self._peek(); raise if it is not None; return result.
DecodeEnd ==
    /\ Running("decode", "end")
    /\ IF Peek # NoneChar
       THEN Raise("Extra characters after JSON")
       ELSE /\ status' = "returned"
            /\ result' = Top.val
            /\ stack' = <<>>
            /\ ended' = Append(ended, Ended("returned", "", ""))
            /\ UNCHANGED <<content, n, past, ret, exc, error, calls>>
    /\ UNCHANGED idx

(***************************************************************************)
(* _skip_whitespace(): one iteration of its loop.                          *)
(***************************************************************************)

SkipWhitespace ==
    /\ Running("skip_whitespace", "open")
    /\ IF Peek # NoneChar /\ IsWhitespace(Peek)
       THEN /\ idx' = AfterNext
            /\ UNCHANGED <<content, n, past, ended, stack, ret, status, exc, error, result, calls>>
       ELSE /\ Return(ret)
            /\ UNCHANGED idx

(***************************************************************************)
(* _parse_one(): it returns what the routine it chooses returns, so the    *)
(* chosen routine takes its place on the stack.                            *)
(***************************************************************************)

\* Dispatch with the literals left out.
DispatchMutant(first) ==
    IF first = CodePoint("{") THEN "parse_object"
    ELSE IF first = CodePoint("[") THEN "parse_array"
    ELSE IF first = CodePoint("\"") THEN "parse_string"
    ELSE IF first = CodePoint("-") \/ IsDigit(first) THEN "parse_number"
    ELSE "none"

\* The routine chosen on the character first, "none" if there is none.
Dispatch(first) ==
    IF first = CodePoint("{") THEN "parse_object"
    ELSE IF first = CodePoint("[") THEN "parse_array"
    ELSE IF first = CodePoint("\"") THEN "parse_string"
    ELSE IF first \in {CodePoint("t"), CodePoint("f"), CodePoint("n")}
         THEN "parse_literal"
    ELSE IF first = CodePoint("-") \/ IsDigit(first) THEN "parse_number"
    ELSE "none"

ParseOne ==
    /\ Running("parse_one", "open")
    /\ LET first == Peek IN
       IF first = NoneChar THEN Raise("No input")
       ELSE IF Dispatch(first) = "none" THEN Raise("Invalid JSON")
       ELSE Goto(Frame(Dispatch(first), "open"))
    /\ UNCHANGED idx

(***************************************************************************)
(* _parse_object()                                                         *)
(***************************************************************************)

\* obj = {}; self._next(); then the loop starts: self._skip_whitespace()
ObjectOpen ==
    /\ Running("parse_object", "open")
    /\ idx' = AfterNext
    /\ Invoke([Top EXCEPT !.pc = "key", !.obj = EmptyDict], "skip_whitespace")

\* char = self._peek(): the end of the object, or a key.
ObjectKey ==
    /\ Running("parse_object", "key")
    /\ LET char == Peek IN
       IF char = NoneChar
       THEN Raise("Object ends without }") /\ UNCHANGED idx
       ELSE IF char = CodePoint("}")
       THEN Return(PyDict(Top.obj)) /\ idx' = AfterNext
       ELSE IF char # CodePoint("\"")
       THEN Raise("Keys must be strings") /\ UNCHANGED idx
       ELSE Invoke([Top EXCEPT !.pc = "gotkey"], "parse_string") /\ UNCHANGED idx

\* key = (what _parse_string returned); self._skip_whitespace()
ObjectGotKey ==
    /\ Running("parse_object", "gotkey")
    /\ Invoke([Top EXCEPT !.pc = "colon", !.key = ret.v], "skip_whitespace")
    /\ UNCHANGED idx


\* ObjectColon that takes any character for the colon.
ObjectColonMutant ==
    /\ Running("parse_object", "colon")
    /\ idx' = AfterNext
    /\ IF Peek = NoneChar
       THEN Raise("Key not followed by \":\"")
       ELSE Invoke([Top EXCEPT !.pc = "value"], "skip_whitespace")

\* char = self._next(); it must be ":"; self._skip_whitespace()
ObjectColon ==
    /\ Running("parse_object", "colon")
    /\ idx' = AfterNext
    /\ IF Peek = NoneChar \/ Peek # CodePoint(":")
       THEN Raise("Key not followed by \":\"")
       ELSE Invoke([Top EXCEPT !.pc = "value"], "skip_whitespace")

\* value = self._parse_one()
ObjectValue ==
    /\ Running("parse_object", "value")
    /\ Invoke([Top EXCEPT !.pc = "assign"], "parse_one")
    /\ UNCHANGED idx

\* obj[key] = value; self._skip_whitespace()
ObjectAssign ==
    /\ Running("parse_object", "assign")
    /\ Invoke([Top EXCEPT !.pc = "sep", !.val = ret,
                           !.obj = DictSet(Top.obj, Top.key, ret)],
              "skip_whitespace")
    /\ UNCHANGED idx

\* char = self._peek(): a comma, or the end of the object.
ObjectSep ==
    /\ Running("parse_object", "sep")
    /\ LET char == Peek IN
       IF char = CodePoint(",")
       THEN /\ idx' = AfterNext
            /\ Invoke([Top EXCEPT !.pc = "aftercomma"], "skip_whitespace")
       ELSE IF char # CodePoint("}")
       THEN Raise("Keys must be separated by , ") /\ UNCHANGED idx
       ELSE Invoke([Top EXCEPT !.pc = "key"], "skip_whitespace") /\ UNCHANGED idx

\* char = self._peek() after a comma; then the loop starts again.
ObjectAfterComma ==
    /\ Running("parse_object", "aftercomma")
    /\ LET char == Peek IN
       IF char = CodePoint(",") THEN Raise("Can't have two commas back to back")
       ELSE IF char = CodePoint("}") THEN Raise("Can't end with a trailing comma")
       ELSE Invoke([Top EXCEPT !.pc = "key"], "skip_whitespace")
    /\ UNCHANGED idx

(***************************************************************************)
(* _parse_array()                                                          *)
(***************************************************************************)

\* char = self._next(); arr = []; then the loop starts.
ArrayOpen ==
    /\ Running("parse_array", "open")
    /\ idx' = AfterNext
    /\ Invoke([Top EXCEPT !.pc = "elem", !.arr = <<>>], "skip_whitespace")

\* char = self._peek(): the end of the array, or an element.
ArrayElem ==
    /\ Running("parse_array", "elem")
    /\ LET char == Peek IN
       IF char = NoneChar
       THEN Raise("Array ends without ]") /\ UNCHANGED idx
       ELSE IF char = CodePoint("]")
       THEN Return(PyList(Top.arr)) /\ idx' = AfterNext
       ELSE Invoke([Top EXCEPT !.pc = "gotelem"], "parse_one") /\ UNCHANGED idx

\* element = (what _parse_one returned); self._skip_whitespace()
ArrayGotElem ==
    /\ Running("parse_array", "gotelem")
    /\ Invoke([Top EXCEPT !.pc = "sep", !.val = ret], "skip_whitespace")
    /\ UNCHANGED idx

\* char = self._peek(): a comma, or the end of the array.
ArraySep ==
    /\ Running("parse_array", "sep")
    /\ LET char == Peek IN
       IF char = CodePoint(",")
       THEN /\ idx' = AfterNext
            /\ Invoke([Top EXCEPT !.pc = "aftercomma"], "skip_whitespace")
       ELSE IF char # CodePoint("]")
       THEN Raise("Array elements must be separated with ,") /\ UNCHANGED idx
       ELSE /\ Invoke([Top EXCEPT !.pc = "elem", !.arr = Append(Top.arr, Top.val)],
                      "skip_whitespace")
            /\ UNCHANGED idx


\* ArrayAfterComma without the check for the closing bracket.
ArrayAfterCommaMutant ==
    /\ Running("parse_array", "aftercomma")
    /\ LET char == Peek IN
       IF char = CodePoint(",") THEN Raise("Can't have two commas back to back")
       ELSE Invoke([Top EXCEPT !.pc = "elem", !.arr = Append(Top.arr, Top.val)],
                   "skip_whitespace")
    /\ UNCHANGED idx

\* char = self._peek() after a comma; arr.append(element); the loop again.
ArrayAfterComma ==
    /\ Running("parse_array", "aftercomma")
    /\ LET char == Peek IN
       IF char = CodePoint(",") THEN Raise("Can't have two commas back to back")
       ELSE IF char = CodePoint("]") THEN Raise("Can't end with a trailing comma")
       ELSE Invoke([Top EXCEPT !.pc = "elem", !.arr = Append(Top.arr, Top.val)],
                   "skip_whitespace")
    /\ UNCHANGED idx

(***************************************************************************)
(* _parse_string()                                                         *)
(***************************************************************************)

\* The character _next() returns, and the one a second _next() returns.
NextChar == Peek
SecondChar == IF idx + 2 < n THEN content[idx + 3] ELSE NoneChar

\* The index after two calls of _next().
AfterSecond ==
    IF Peek = NoneChar THEN idx
    ELSE IF SecondChar = NoneChar THEN idx + 1
    ELSE idx + 2

\* s = ""; self._next(); char = self._next()
StringOpen ==
    /\ Running("parse_string", "open")
    /\ idx' = AfterSecond
    /\ Goto([Top EXCEPT !.pc = "loop", !.s = <<>>, !.char = SecondChar])


\* StringChar without the check of line 146.
StringCharMutant ==
    /\ Running("parse_string", "loop")
    /\ LET char == Top.char IN
       IF char = NoneChar
       THEN Raise("Unterminated string") /\ UNCHANGED idx
       ELSE IF char = CodePoint("\"")
       THEN Return(PyStr(Top.s)) /\ UNCHANGED idx
       ELSE IF char = CodePoint("\\")
       THEN LET next == NextChar IN
            IF next = NoneChar
            THEN Raise("\\ not followed by anything to escape") /\ UNCHANGED idx
            ELSE IF next = CodePoint("u")
            THEN /\ Goto([Top EXCEPT !.pc = "hex", !.hex = <<>>])
                 /\ idx' = AfterNext
            ELSE IF next \in EscapeKeys
            THEN /\ Goto([Top EXCEPT !.s = Append(Top.s, EscapeCharacter(next)),
                                     !.char = SecondChar])
                 /\ idx' = AfterSecond
            ELSE Raise("Invalid escape") /\ idx' = AfterNext
       ELSE /\ Goto([Top EXCEPT !.s = Append(Top.s, char), !.char = NextChar])
            /\ idx' = AfterNext

\* One iteration of the loop, but for the digits of a \u escape.
StringChar ==
    /\ Running("parse_string", "loop")
    /\ LET char == Top.char IN
       IF char = NoneChar
       THEN Raise("Unterminated string") /\ UNCHANGED idx
       ELSE IF char < 32
       THEN Raise("Unescaped control character in string") /\ UNCHANGED idx
       ELSE IF char = CodePoint("\"")
       THEN Return(PyStr(Top.s)) /\ UNCHANGED idx
       ELSE IF char = CodePoint("\\")
       THEN LET next == NextChar IN
            IF next = NoneChar
            THEN Raise("\\ not followed by anything to escape") /\ UNCHANGED idx
            ELSE IF next = CodePoint("u")
            THEN /\ Goto([Top EXCEPT !.pc = "hex", !.hex = <<>>])
                 /\ idx' = AfterNext
            ELSE IF next \in EscapeKeys
            THEN /\ Goto([Top EXCEPT !.s = Append(Top.s, EscapeCharacter(next)),
                                     !.char = SecondChar])
                 /\ idx' = AfterSecond
            ELSE Raise("Invalid escape") /\ idx' = AfterNext
       ELSE /\ Goto([Top EXCEPT !.s = Append(Top.s, char), !.char = NextChar])
            /\ idx' = AfterNext

\* One iteration of the loop over the four digits of a \u escape; after the
\* fourth, s += chr(int(hex_digits, base=16)) and char = self._next().
\* int() raises ValueError on a character that is a digit and not a decimal.
StringHexDigit ==
    /\ Running("parse_string", "hex")
    /\ LET hd == NextChar
           hex_digits == Append(Top.hex, hd)
       IN  IF hd = NoneChar \/ ~IsHexDigit(hd)
           THEN Raise("Invalid escape with \\u") /\ idx' = AfterNext
           ELSE IF Len(hex_digits) < 4
           THEN Goto([Top EXCEPT !.hex = hex_digits]) /\ idx' = AfterNext
           ELSE IF ~HexOf(hex_digits).ok
           THEN /\ status' = "raised"
                /\ exc' = "ValueError"
                /\ error' = "invalid literal for int() with base 16"
                /\ stack' = <<>>
                /\ idx' = AfterNext
                /\ ended' = Append(ended, Ended("raised", "ValueError", error'))
                /\ UNCHANGED <<content, n, past, ret, result, calls>>
           ELSE /\ Goto([Top EXCEPT !.pc = "loop", !.hex = hex_digits,
                                    !.s = Append(Top.s, HexOf(hex_digits).v),
                                    !.char = SecondChar])
                /\ idx' = AfterSecond

(***************************************************************************)
(* _parse_number()                                                         *)
(***************************************************************************)

\* One iteration of the collecting loop.
NumberCollect ==
    /\ Running("parse_number", "open")
    /\ LET char == Peek IN
       IF char # NoneChar /\ ~IsDelimiter(char)
       THEN /\ Goto([Top EXCEPT !.s = Append(Top.s, char),
                                !.flag = Top.flag \/ char = CodePoint(".")])
            /\ idx' = AfterNext
       ELSE /\ Goto([Top EXCEPT !.pc = "convert"])
            /\ UNCHANGED idx

\* What _parse_number makes of the token s: a value, or the message of the
\* JSONDecodeError it raises.
NumberOf(s, isFloat) ==
    IF s[Len(s)] = CodePoint(".")
    THEN [ok |-> FALSE, msg |-> "Dot cannot be in the end", v |-> PyNone]
    ELSE IF Len(s) >= 2 /\ s[1] = CodePoint("0") /\ IsNumeric(s[2])
    THEN [ok |-> FALSE, msg |-> "Number cannot begin with 0", v |-> PyNone]
    ELSE LET num == IF isFloat THEN FloatOf(s) ELSE IntOf(s) IN
         IF num.ok THEN [ok |-> TRUE, msg |-> "", v |-> num.v]
         ELSE [ok |-> FALSE, msg |-> "Invalid number", v |-> PyNone]

\* The checks of the token and its conversion.
NumberConvert ==
    /\ Running("parse_number", "convert")
    /\ LET num == NumberOf(Top.s, Top.flag) IN
       IF num.ok THEN Return(num.v) ELSE Raise(num.msg)
    /\ UNCHANGED idx

(***************************************************************************)
(* _parse_literal()                                                        *)
(***************************************************************************)

\* One iteration of the collecting loop.
LiteralCollect ==
    /\ Running("parse_literal", "open")
    /\ LET char == Peek IN
       IF char # NoneChar /\ ~IsDelimiter(char)
       THEN /\ Goto([Top EXCEPT !.s = Append(Top.s, char)])
            /\ idx' = AfterNext
       ELSE /\ Goto([Top EXCEPT !.pc = "match"])
            /\ UNCHANGED idx


\* LiteralMatch that takes every other token for null.
LiteralMatchMutant ==
    /\ Running("parse_literal", "match")
    /\ LET s == Top.s IN
       IF s = Str(<<"t", "r", "u", "e">>) THEN Return(PyBool(TRUE))
       ELSE IF s = Str(<<"f", "a", "l", "s", "e">>) THEN Return(PyBool(FALSE))
       ELSE Return(PyNone)
    /\ UNCHANGED idx

\* The token against "true", "false" and "null".
LiteralMatch ==
    /\ Running("parse_literal", "match")
    /\ LET s == Top.s IN
       IF s = Str(<<"t", "r", "u", "e">>) THEN Return(PyBool(TRUE))
       ELSE IF s = Str(<<"f", "a", "l", "s", "e">>) THEN Return(PyBool(FALSE))
       ELSE IF s = Str(<<"n", "u", "l", "l">>) THEN Return(PyNone)
       ELSE Raise("Invalid literal syntax")
    /\ UNCHANGED idx


(***************************************************************************)
(* The inputs.                                                             *)
(***************************************************************************)

\* The sequences over S of length at most k.
UpTo(S, k) == UNION {[1..j -> S] : j \in 0..k}

RECURSIVE Flatten(_)
Flatten(ss) == IF ss = <<>> THEN <<>> ELSE ss[1] \o Flatten(Tail(ss))

\* Texts that together take every path of every routine.
CoverageInputs ==
    {Str(<<" ", "{", "\"", "a", "\"", ":", "[", "1", ",", "\"", "\\", "u", "0",
           "0", "4", "1", "\\", "n", "\"", "]", ",", "\"", "b", "\"", ":",
           "t", "r", "u", "e", "}", " ">>)}

MaxLen == 3

\* Every text of at most MaxLen characters over the structural characters.
ShortInputs ==
    UpTo(Chars(<<"{", "}", "[", "]", "\"", ",", ":", "1", " ", "a">>), MaxLen)

MaxNumLen == 4

\* Unquoted tokens that start as a number may, or with "+" or ".".
NumberInputs ==
    {<<f>> \o r : f \in Chars(<<"-", "0", "1", "+", ".">>),
                  r \in UpTo(Chars(<<"-", "0", "1", ".", "e", "_">>), MaxNumLen - 1)}

\* Tokens in exponent notation: a mantissa, e or E, a sign or none, digits.
ExponentInputs ==
    {m \o <<e>> \o s \o d :
        m \in {Str(<<"1">>), Str(<<"-", "2">>), Str(<<"1", ".", "5">>),
               Str(<<"-", "0", ".", "5">>)},
        e \in Chars(<<"e", "E">>),
        s \in {<<>>, Str(<<"+">>), Str(<<"-">>)},
        d \in {Str(<<"5">>), Str(<<"1", "0">>)}}

\* Tokens whose digits start with one or more zeros, and their negations.
ZeroInputs ==
    {s \o z \o r :
        s \in {<<>>, Str(<<"-">>)},
        z \in {Str(<<"0">>), Str(<<"0", "0">>)},
        r \in {<<>>, Str(<<"1">>), Str(<<"1", "2", "3">>), Str(<<".", "1">>),
               Str(<<".", "5">>), Str(<<".", "0", "1">>)}}

\* The escapes of a string, each with the character it stands for: the
\* text is what the input holds, cp the code point of the one character.
SimpleEscapes ==
    {[text |-> Str(<<"\\", "\"">>), cp |-> CodePoint("\"")],
     [text |-> Str(<<"\\", "\\">>), cp |-> CodePoint("\\")],
     [text |-> Str(<<"\\", "/">>), cp |-> CodePoint("/")],
     [text |-> Str(<<"\\", "n">>), cp |-> CodePoint("LF")],
     [text |-> Str(<<"\\", "r">>), cp |-> CodePoint("CR")],
     [text |-> Str(<<"\\", "t">>), cp |-> CodePoint("TAB")],
     [text |-> Str(<<"\\", "b">>), cp |-> CodePoint("BS")],
     [text |-> Str(<<"\\", "f">>), cp |-> CodePoint("FF")]}

\* The character of the hexadecimal digit d, in upper or lower case.
HexChar(d, upper) ==
    IF d < 10 THEN CodePoint("0") + d
    ELSE IF upper THEN CodePoint("A") + (d - 10)
    ELSE CodePoint("a") + (d - 10)

\* The four hexadecimal digits of the code point cp.
HexText(cp, upper) ==
    <<HexChar(cp \div 4096, upper), HexChar((cp \div 256) % 16, upper),
      HexChar((cp \div 16) % 16, upper), HexChar(cp % 16, upper)>>

\* U+0041, U+00DF, U+ABCD, and the surrogates U+D83D and U+DE00.
UnicodeSample == {65, 223, 43981, 55357, 56832}

UnicodeEscapes ==
    {[text |-> Str(<<"\\", "u">>) \o HexText(cp, upper), cp |-> cp] :
        cp \in UnicodeSample, upper \in BOOLEAN}

PlainCharacters == {[text |-> Str(<<"a">>), cp |-> CodePoint("a")]}

StringItems == SimpleEscapes \cup UnicodeEscapes \cup PlainCharacters

MaxItems == 2

\* The text of a string of the given items, in its quotes.
Quoted(items) ==
    Str(<<"\"">>) \o Flatten([i \in 1..Len(items) |-> items[i].text]) \o Str(<<"\"">>)

\* Strings of at most MaxItems escapes and characters, each with the str it
\* stands for.
EscapeCases ==
    {[text |-> Quoted(items), value |-> [i \in 1..Len(items) |-> items[i].cp]] :
        items \in UpTo(StringItems, MaxItems)}

\* What may stand where a hexadecimal digit is expected.
HexSample ==
    Chars(<<"0", "a", "F", "G", "\"", "ARABIC-INDIC THREE", "SUPERSCRIPT TWO">>)

\* A string that starts with backslash-u and at most four more characters,
\* with the closing quote or cut there.
UnicodeEscapeInputs ==
    {Str(<<"\"", "\\", "u">>) \o h \o q :
        h \in UpTo(HexSample, 4), q \in {<<>>, Str(<<"\"">>)}}

\* Every character of the model.
Alphabet ==
    Chars(<<"{", "}", "[", "]", "\"", "\\", ",", ":", " ", "-", "+", ".", "_", "/",
            "'", "0", "1", "9", "A", "F", "G", "T", "a", "b", "e", "f", "n", "r",
            "t", "u", "x", "BS", "TAB", "LF", "VT", "FF", "CR", "US", "DEL", "NEL",
            "NBSP", "SUPERSCRIPT TWO", "ONE HALF", "ARABIC-INDIC THREE",
            "FULLWIDTH ONE", "FULLWIDTH A">>)

\* A string that starts with a backslash and at most one more character,
\* with the closing quote or cut there.
BackslashInputs ==
    {Str(<<"\"", "\\">>) \o c \o q :
        c \in UpTo(Alphabet, 1), q \in {<<>>, Str(<<"\"">>)}}

StringInputs ==
    {c.text : c \in EscapeCases} \cup UnicodeEscapeInputs \cup BackslashInputs

\* The text of the elements, with the separator between each two.
RECURSIVE Join(_, _)
Join(texts, sep) ==
    IF texts = <<>> THEN <<>>
    ELSE IF Len(texts) = 1 THEN texts[1]
    ELSE texts[1] \o sep \o Join(Tail(texts), sep)

\* Key-value pairs: the key is a str, val a value with its text.
Pairs ==
    {[key |-> k, val |-> v] :
        k \in {Str(<<"a">>), Str(<<"b">>)},
        v \in {[text |-> Str(<<"1">>), value |-> PyInt(1)],
               [text |-> Str(<<"2">>), value |-> PyInt(2)],
               [text |-> Str(<<"t", "r", "u", "e">>), value |-> PyBool(TRUE)]}}

MaxPairs == 3

\* The text of the object of the pairs ps, sp around each key and value.
ObjectText(ps, sp) ==
    Str(<<"{">>)
      \o Join([i \in 1..Len(ps) |->
                 sp \o Str(<<"\"">>) \o ps[i].key \o Str(<<"\"">>) \o sp
                    \o Str(<<":">>) \o sp \o ps[i].val.text \o sp],
              Str(<<",">>))
      \o Str(<<"}">>)

\* The place of the last pair of ps with the key k.
LastOf(ps, k) ==
    CHOOSE i \in 1..Len(ps) :
        ps[i].key = k /\ \A j \in 1..Len(ps) : ps[j].key = k => j <= i

\* The mapping of each key of ps to the value of its last pair.
LastValues(ps) ==
    [k \in {ps[i].key : i \in 1..Len(ps)} |-> ps[LastOf(ps, k)].val.value]

\* Objects of at most MaxPairs pairs, keys repeated or not, each with the
\* mapping it stands for.
ObjectCases ==
    {[text |-> ObjectText(ps, sp), value |-> PyDict(LastValues(ps))] :
        ps \in UpTo(Pairs, MaxPairs), sp \in {<<>>, Str(<<" ">>)}}

ObjectInputs == {c.text : c \in ObjectCases}

\* A value of each type, with its text.
TopLevelValues ==
    {[text |-> Str(<<"{", "}">>), value |-> PyDict(EmptyDict)],
     [text |-> Str(<<"{", "\"", "a", "\"", ":", "1", "}">>),
      value |-> PyDict(DictSet(EmptyDict, Str(<<"a">>), PyInt(1)))],
     [text |-> Str(<<"[", "]">>), value |-> PyList(<<>>)],
     [text |-> Str(<<"[", "1", "]">>), value |-> PyList(<<PyInt(1)>>)],
     [text |-> Str(<<"\"", "\"">>), value |-> PyStr(<<>>)],
     [text |-> Str(<<"\"", "a", "\"">>), value |-> PyStr(Str(<<"a">>))],
     [text |-> Str(<<"1">>), value |-> PyInt(1)],
     [text |-> Str(<<"-", "1", ".", "5">>), value |-> PyFloat(TRUE, 15, -1)],
     [text |-> Str(<<"t", "r", "u", "e">>), value |-> PyBool(TRUE)],
     [text |-> Str(<<"f", "a", "l", "s", "e">>), value |-> PyBool(FALSE)],
     [text |-> Str(<<"n", "u", "l", "l">>), value |-> PyNone]}

\* Space, tab, LF and CR.
JsonWhitespace == Chars(<<" ", "TAB", "LF", "CR">>)

MaxWs == 1

\* A value of each type between two runs of whitespace.
TopLevelCases ==
    {[text |-> pre \o v.text \o post, value |-> v.value] :
        v \in TopLevelValues,
        pre \in UpTo(JsonWhitespace, MaxWs), post \in UpTo(JsonWhitespace, MaxWs)}

\* Characters that are no JSON whitespace; the first five end an unquoted
\* token (str.isspace() holds of FF and NBSP).
TrailingCharacters ==
    <<"FF", "NBSP", ",", "}", "]", "x", "1", "\"", "{", "[", ":", "n">>

\* A value, a run of whitespace, and then nothing or one more character.
\* Straight after an unquoted token (a number or a literal) the character
\* is one that ends the token.
TrailingCases ==
    {[text |-> v.text \o ws \o rest, rest |-> rest] :
        v \in TopLevelValues, ws \in UpTo(JsonWhitespace, MaxWs),
        rest \in {<<>>} \cup {<<CodePoint(TrailingCharacters[i])>> : i \in 1..5}}
    \cup
    {[text |-> v.text \o ws \o rest, rest |-> rest] :
        v \in {w \in TopLevelValues :
                  w.text[Len(w.text)] \in Chars(<<"}", "]", "\"">>)},
        ws \in UpTo(JsonWhitespace, MaxWs),
        rest \in {<<CodePoint(TrailingCharacters[i])>> : i \in 6..12}}
    \cup
    {[text |-> v.text \o ws \o rest, rest |-> rest] :
        v \in TopLevelValues, ws \in UpTo(JsonWhitespace, MaxWs) \ {<<>>},
        rest \in {<<CodePoint(TrailingCharacters[i])>> : i \in 6..12}}

TopLevelInputs == {c.text : c \in TopLevelCases} \cup {c.text : c \in TrailingCases}

MaxElems == 2

\* Scalars of the grammar: literals, integers, floats, strings with escapes.
ScalarTexts ==
    {Str(<<"n", "u", "l", "l">>), Str(<<"t", "r", "u", "e">>),
     Str(<<"f", "a", "l", "s", "e">>), Str(<<"-", "0">>), Str(<<"1", "2">>),
     Str(<<"0", ".", "5">>), Str(<<"-", "1", ".", "5", "0">>),
     Str(<<"\"", "a", "\"">>),
     Str(<<"\"", "\\", "u", "0", "0", "4", "1", "\\", "n", "\"">>),
     Str(<<"\"", "\\", "\\", "u", "d", "8", "3", "d", "\\", "u", "d", "e", "0", "0",
           "\"">>)}

\* Strings of at most MaxElems escapes and characters, among them the two
\* surrogates of a pair.
GrammarStrings ==
    {Quoted(items) :
        items \in UpTo({i \in StringItems :
                          i.cp \in {10, 92, 97, 65, 55357, 56832}}, MaxElems)}

\* The text of the array of the given element texts, sp around each.
ArrayText(es, sp) ==
    Str(<<"[">>) \o Join([i \in 1..Len(es) |-> sp \o es[i] \o sp], Str(<<",">>))
                \o Str(<<"]">>)

\* The text of the object of the given keys and value texts.
MemberText(ms, sp) ==
    Str(<<"{">>)
      \o Join([i \in 1..Len(ms) |->
                 sp \o Str(<<"\"">>) \o ms[i][1] \o Str(<<"\"">>) \o Str(<<":">>)
                    \o sp \o ms[i][2]],
              Str(<<",">>))
      \o Str(<<"}">>)

Spacing == {<<>>, Str(<<" ">>)}

\* Containers that hold containers.
NestedTexts ==
    {Str(<<"[", "]">>), Str(<<"{", "}">>), Str(<<"1">>),
     Str(<<"[", "1", ",", "[", "2", "]", "]">>),
     Str(<<"{", "\"", "a", "\"", ":", "{", "\"", "b", "\"", ":", "n", "u", "l", "l",
           "}", "}">>),
     Str(<<"[", "{", "\"", "a", "\"", ":", "[", "]", "}", "]">>)}

\* Texts of the grammar: scalars, strings, arrays and objects of at most
\* MaxElems scalars, and arrays and objects of containers.
GrammarInputs ==
    ScalarTexts \cup GrammarStrings
    \cup {ArrayText(es, sp) : es \in UpTo(ScalarTexts, MaxElems), sp \in Spacing}
    \cup {MemberText(ms, sp) :
            ms \in UpTo({Str(<<"a">>), Str(<<"b">>)}
                          \X {Str(<<"1">>), Str(<<"0", ".", "5">>),
                               Str(<<"\"", "a", "\"">>)}, MaxElems),
            sp \in Spacing}
    \cup {ArrayText(es, <<>>) : es \in UpTo(NestedTexts, MaxElems)}
    \cup {MemberText(ms, <<>>) :
            ms \in UpTo({Str(<<"a">>), Str(<<"b">>)}
                          \X {Str(<<"[", "1", ",", "[", "2", "]", "]">>),
                               Str(<<"{", "\"", "a", "\"", ":", "[", "]", "}">>),
                               Str(<<"n", "u", "l", "l">>)}, MaxElems)}


\* What may stand before the opening quote of a string: nothing, or the text
\* up to a key or up to a value of an object or an element of an array.
StringContexts ==
    {<<>>, Str(<<"{">>), Str(<<"{", "\"", "a", "\"", ":", "1", ",">>),
     Str(<<"{", "\"", "a", "\"", ":">>), Str(<<"[">>), Str(<<"[", "1", ",", " ">>)}

\* What a string may hold: a character and whole escapes.
BodyItems ==
    {Str(<<"a">>), Str(<<"\\", "\"">>), Str(<<"\\", "\\">>),
     Str(<<"\\", "u", "0", "0", "4", "1">>)}

\* The text of at most MaxItems of them.
StringBodies ==
    {Flatten(items) : items \in UpTo(BodyItems, MaxItems)}

\* Characters with a code point below 0x20.
ControlCharacters == Chars(<<"NUL", "BS", "TAB", "LF", "VT", "FF", "CR", "US">>)

\* A string with a raw control character after whole characters and
\* escapes, and a string that the end of the input cuts after whole
\* characters and escapes; each with the failure the design names.
StringEndCases ==
    {[text |-> ctx \o Str(<<"\"">>) \o body \o <<c>> \o rest,
      category |-> "UnescapedControlCharacter"] :
        ctx \in StringContexts, body \in StringBodies, c \in ControlCharacters,
        rest \in {<<>>, Str(<<"\"">>), Str(<<"a", "\"", ":", "1", "}">>)}}
    \cup
    {[text |-> ctx \o Str(<<"\"">>) \o body, category |-> "UnterminatedString"] :
        ctx \in StringContexts, body \in StringBodies}

StringEndInputs == {c.text : c \in StringEndCases}


\* What may stand before a container: nothing, or the text up to an element
\* of an array.
ContainerContexts == {<<>>, Str(<<"[">>)}

\* Elements: a number, a string and an array.
ElementTexts == {Str(<<"1">>), Str(<<"\"", "a", "\"">>), Str(<<"[", "]">>)}

\* An array or an object, open, up to the end of an element or of a pair:
\* closer is its own closing bracket, other the one of the other kind.
OpenContainers ==
    {[text |-> ctx \o Str(<<"[">>) \o before \o e, kind |-> "array",
      closer |-> CodePoint("]"), other |-> CodePoint("}")] :
        ctx \in ContainerContexts, before \in {<<>>, Str(<<"1", ",">>)},
        e \in ElementTexts}
    \cup
    {[text |-> ctx \o Str(<<"{">>) \o before \o Str(<<"\"", "b", "\"", ":">>) \o e,
      kind |-> "object", closer |-> CodePoint("}"), other |-> CodePoint("]")] :
        ctx \in ContainerContexts,
        before \in {<<>>, Str(<<"\"", "a", "\"", ":", "1", ",">>)},
        e \in ElementTexts}

\* The element before the place ended with a quote or a bracket, not as an
\* unquoted token that the next character could lengthen.
EndsClosed(text) == text[Len(text)] \in Chars(<<"\"", "]", "}">>)

\* Characters that are no comma and no whitespace of the design; the first
\* two end an unquoted token (str.isspace() holds of them).
NoSeparator == <<"FF", "NBSP", "x", "1", "\"", ":", "{">>

\* After an element or a pair: a comma and a second comma, a comma and the
\* closing bracket, or a character that is neither a comma nor the closing
\* bracket; each with the failure the design names.
SeparatorCases ==
    UNION {{[text |-> c.text \o ws1 \o Str(<<",">>) \o ws2 \o Str(<<",">>) \o rest,
             category |-> "DoubleComma"] :
               ws1 \in Spacing, ws2 \in UpTo(JsonWhitespace, MaxWs),
               rest \in {<<>>, Str(<<"1">>) \o <<c.closer>>}} :
           c \in OpenContainers}
    \cup
    {[text |-> c.text \o ws1 \o Str(<<",">>) \o ws2 \o <<c.closer>>,
      category |-> "TrailingComma"] :
        c \in OpenContainers, ws1 \in Spacing, ws2 \in UpTo(JsonWhitespace, MaxWs)}
    \cup
    UNION {{[text |-> c.text \o ws \o <<x>> \o rest,
             category |-> IF c.kind = "array" THEN "MissingCommaOrBracket"
                          ELSE "MissingCommaOrBrace"] :
               x \in {c.other} \cup {CodePoint(NoSeparator[i]) :
                         i \in IF EndsClosed(c.text) \/ ws # <<>>
                               THEN 1..Len(NoSeparator) ELSE 1..2},
               rest \in {<<>>, <<c.closer>>}} :
           c \in OpenContainers, ws \in UpTo(JsonWhitespace, MaxWs)}

SeparatorInputs == {c.text : c \in SeparatorCases}


\* An object, open, up to the place of its first or of its second key.
KeyPlaces ==
    {ctx \o Str(<<"{">>) \o before :
        ctx \in ContainerContexts,
        before \in {<<>>, Str(<<"\"", "a", "\"", ":", "1", ",">>)}}

\* What is no key: an unquoted word, a word in single quotes, a number, the
\* literals, brackets, and characters that start nothing.
NoKeys ==
    {Str(<<"a">>), Str(<<"'", "a", "'">>), Str(<<"1">>), Str(<<"-", "1">>),
     Str(<<"t", "r", "u", "e">>), Str(<<"f", "a", "l", "s", "e">>),
     Str(<<"n", "u", "l", "l">>), Str(<<"{">>), Str(<<"[">>), Str(<<"]">>),
     Str(<<":">>), Str(<<"\\">>), Str(<<"NBSP">>), Str(<<"FF">>)}

\* What is no colon: the end of the input among them.
NoColons ==
    {<<>>, Str(<<"\"">>), Str(<<"1">>), Str(<<",">>), Str(<<"}">>), Str(<<"]">>),
     Str(<<"{">>), Str(<<"a">>), Str(<<"-">>), Str(<<"NBSP">>), Str(<<"FF">>)}

\* An object with something else where a key stands, and one with something
\* else where the colon after a key stands; each with the failure the design
\* names.  Straight after "{" a comma is no key either; after a comma it is
\* a second comma.
KeyCases ==
    {[text |-> p \o ws \o k \o rest, category |-> "NonStringKey"] :
        p \in KeyPlaces, ws \in UpTo(JsonWhitespace, MaxWs), k \in NoKeys,
        rest \in {<<>>, Str(<<":", "1", "}">>)}}
    \cup
    {[text |-> ctx \o Str(<<"{">>) \o ws \o Str(<<",">>) \o rest,
      category |-> "NonStringKey"] :
        ctx \in ContainerContexts, ws \in UpTo(JsonWhitespace, MaxWs),
        rest \in {<<>>, Str(<<"\"", "a", "\"", ":", "1", "}">>)}}
    \cup
    {[text |-> p \o key \o ws \o c \o (IF c = <<>> THEN <<>> ELSE rest),
      category |-> "MissingColon"] :
        p \in KeyPlaces, key \in {Str(<<"\"", "b", "\"">>), Str(<<"\"", "\"">>)},
        ws \in UpTo(JsonWhitespace, MaxWs), c \in NoColons,
        rest \in {<<>>, Str(<<":", "1", "}">>)}}

KeyInputs == {c.text : c \in KeyCases}


\* Texts as their tokens, each with the value it stands for.
TokenDocuments ==
    {[tokens |-> <<Str(<<"{">>), Str(<<"\"", "a", "\"">>), Str(<<":">>), Str(<<"[">>),
                   Str(<<"1">>), Str(<<",">>), Str(<<"t", "r", "u", "e">>),
                   Str(<<"]">>), Str(<<"}">>)>>,
      value |-> PyDict(DictSet(EmptyDict, Str(<<"a">>),
                               PyList(<<PyInt(1), PyBool(TRUE)>>)))],
     [tokens |-> <<Str(<<"[">>), Str(<<"{">>), Str(<<"}">>), Str(<<",">>),
                   Str(<<"\"", "a", "\"">>), Str(<<"]">>)>>,
      value |-> PyList(<<PyDict(EmptyDict), PyStr(Str(<<"a">>))>>)],
     [tokens |-> <<Str(<<"n", "u", "l", "l">>)>>, value |-> PyNone],
     [tokens |-> <<Str(<<"-", "1", ".", "5">>)>>, value |-> PyFloat(TRUE, 15, -1)]}

\* The text of the tokens with gap[j] after the j-th of them, gap[0] first.
Spaced(tokens, gap) ==
    Flatten([i \in 1..(2 * Len(tokens) + 1) |->
                IF i % 2 = 1 THEN gap[(i - 1) \div 2] ELSE tokens[i \div 2]])

\* The run w at the place k and nothing at the others; w at every place.
OneGap(tokens, k, w) == [j \in 0..Len(tokens) |-> IF j = k THEN w ELSE <<>>]
AllGaps(tokens, w) == [j \in 0..Len(tokens) |-> w]

\* Characters of which str.isspace() holds and that are no whitespace of
\* the design: VT, FF, NEL, NBSP.
OtherSpaces == Chars(<<"VT", "FF", "NEL", "NBSP">>)

\* A run of space, tab, LF and CR at one place between the tokens, before
\* the first or after the last, or the same run at every place: the value
\* stays.  Another whitespace character at one place, after such a run:
\* decode fails.
WhitespaceCases ==
    UNION {{[text |-> Spaced(d.tokens, OneGap(d.tokens, k, w)), ok |-> TRUE,
             value |-> d.value] :
               k \in 0..Len(d.tokens), w \in UpTo(JsonWhitespace, MaxWs)} :
           d \in TokenDocuments}
    \cup
    {[text |-> Spaced(d.tokens, AllGaps(d.tokens, w)), ok |-> TRUE, value |-> d.value] :
        d \in TokenDocuments, w \in UpTo(JsonWhitespace, MaxWs)}
    \cup
    UNION {{[text |-> Spaced(d.tokens, OneGap(d.tokens, k, w \o <<c>>)), ok |-> FALSE,
             value |-> d.value] :
               k \in 0..Len(d.tokens), w \in UpTo(JsonWhitespace, MaxWs),
               c \in OtherSpaces} :
           d \in TokenDocuments}

WhitespaceInputs == {c.text : c \in WhitespaceCases}


\* The place after the k-th of the tokens: after an opening bracket, a
\* comma, a key, a colon, or after an element or a pair.
PlaceAfter(tokens, k) ==
    IF tokens[k] \in {Str(<<"{">>), Str(<<"[">>)} THEN "open"
    ELSE IF tokens[k] = Str(<<",">>) THEN "comma"
    ELSE IF tokens[k] = Str(<<":">>) THEN "colon"
    ELSE IF tokens[k + 1] = Str(<<":">>) THEN "key"
    ELSE "element"

\* A text of a container cut after one of its tokens, and a run of
\* whitespace: the input ends with an object or an array open.
CutCases ==
    UNION {{[text |-> Flatten(SubSeq(d.tokens, 1, k)) \o w,
             place |-> PlaceAfter(d.tokens, k)] :
               k \in 1..(Len(d.tokens) - 1), w \in UpTo(JsonWhitespace, MaxWs)} :
           d \in {e \in TokenDocuments : Len(e.tokens) > 1}}

CutInputs == {c.text : c \in CutCases}


\* true, false and null, each with its value.
LiteralWords ==
    {[text |-> Str(<<"t", "r", "u", "e">>), value |-> PyBool(TRUE)],
     [text |-> Str(<<"f", "a", "l", "s", "e">>), value |-> PyBool(FALSE)],
     [text |-> Str(<<"n", "u", "l", "l">>), value |-> PyNone]}

\* The word with its i-th letter as a capital.
Capital(word, i) == [word EXCEPT ![i] = @ - 32]

\* Tokens that start with t, f or n and are none of the three words: the
\* words cut short, the words with one or more characters more, with a
\* capital after the first letter, and other words.
WrongLiterals ==
    UNION {{SubSeq(w.text, 1, k) : k \in 1..(Len(w.text) - 1)} : w \in LiteralWords}
    \cup {w.text \o x : w \in LiteralWords,
                         x \in {Str(<<"x">>), Str(<<"e">>), Str(<<"1">>), Str(<<"\"">>),
                                Str(<<":">>), Str(<<"[">>), Str(<<"t", "r", "u", "e">>)}}
    \cup UNION {{Capital(w.text, i) : i \in 2..Len(w.text)} : w \in LiteralWords}
    \cup {Str(<<"t", "r", "u", "t", "h">>), Str(<<"n", "a", "n">>),
          Str(<<"f", "a", "l", "s">>) \o <<CodePoint("e") - 32>>}

\* The words with a capital first letter, and all in capitals.
CapitalLiterals ==
    {Capital(w.text, 1) : w \in LiteralWords}
    \cup {[i \in 1..Len(w.text) |-> w.text[i] - 32] : w \in LiteralWords}

\* Where a literal may stand: alone, as an element, as a value of an object.
\* before and after are the text around it, Value the value of the whole.
LiteralContexts ==
    {[before |-> <<>>, after |-> <<>>, kind |-> "top"],
     [before |-> Str(<<"[">>), after |-> Str(<<"]">>), kind |-> "array"],
     [before |-> Str(<<"{", "\"", "a", "\"", ":">>), after |-> Str(<<"}">>),
      kind |-> "object"]}

ValueIn(kind, v) ==
    IF kind = "top" THEN v
    ELSE IF kind = "array" THEN PyList(<<v>>)
    ELSE PyDict(DictSet(EmptyDict, Str(<<"a">>), v))

\* What ends an unquoted token: the end of the input, a character of which
\* str.isspace() holds, a comma and the closing brackets.
TokenEnds ==
    {<<>>} \cup {<<c>> : c \in JsonWhitespace \cup Chars(<<"FF", "NBSP", ",", "}", "]">>)}

\* A literal in its context: one of the three words, before a run of
\* whitespace; a wrong token and a token in capitals, before the end of a
\* token and then the end of the context or of the input.
LiteralCases ==
    {[text |-> x.before \o w.text \o ws \o x.after, kind |-> "word",
      value |-> ValueIn(x.kind, w.value)] :
        x \in LiteralContexts, w \in LiteralWords, ws \in UpTo(JsonWhitespace, MaxWs)}
    \cup
    {[text |-> x.before \o k \o e \o rest, kind |-> "wrong", value |-> PyNone] :
        x \in LiteralContexts, k \in WrongLiterals, e \in TokenEnds,
        rest \in {<<>>, Str(<<"]">>)}}
    \cup
    {[text |-> x.before \o k \o e, kind |-> "capital", value |-> PyNone] :
        x \in LiteralContexts, k \in CapitalLiterals, e \in TokenEnds}

LiteralInputs == {c.text : c \in LiteralCases}


\* Every character of the model where a value is expected: at the start of
\* the text, after whitespace, as the first and as a later element of an
\* array and as the value of an object; alone or with a digit after it.
\* And the texts that end where a value is expected.
DispatchInputs ==
    {pre \o <<c>> \o post :
        pre \in {<<>>, Str(<<" ">>), Str(<<"[">>), Str(<<"[", "1", ",">>),
                 Str(<<"{", "\"", "a", "\"", ":">>)},
        c \in Alphabet, post \in {<<>>, Str(<<"1">>)}}
    \cup UpTo(JsonWhitespace, MaxWs)
    \cup {Str(<<"{", "\"", "a", "\"", ":">>) \o ws : ws \in UpTo(JsonWhitespace, MaxWs)}


\* The texts of a caller that calls decode(content) more than once: texts
\* that decode to a value and texts that fail.
SharedTexts ==
    CoverageInputs
    \cup {Str(<<"[", "1", ",", "\"", "a", "\"", "]">>),
          Str(<<"{", "\"", "a", "\"", ":", "1", "}">>),
          Str(<<"[", "1", ",", "]">>), Str(<<"\"", "a">>), Str(<<"t", "r", "u">>)}

\* The calls of decode(content) of one caller.
MaxInstances == 3

Inputs == CoverageInputs \cup ShortInputs \cup GrammarInputs

(***************************************************************************)
(* decode(content), the function of the module: a new JSONDecoder on the   *)
(* text, whose decode() is called once.  past holds, for each earlier call *)
(* of the function, its text and how it ended.                             *)
(***************************************************************************)

\* How the call of decode() on the instance ended.
Outcome ==
    [text |-> content, status |-> status, exc |-> exc, error |-> error,
     result |-> result]

\* NewInstance with the cursor of the instance before.
NewInstanceMutant ==
    /\ status \in {"returned", "raised"}
    /\ calls = 1
    /\ content \in SharedTexts
    /\ Len(past) < MaxInstances - 1
    /\ past' = Append(past, Outcome)
    /\ content' \in SharedTexts
    /\ n' = Len(content')
    /\ stack' = <<>>
    /\ ret' = PyNone
    /\ status' = "new"
    /\ exc' = ""
    /\ error' = ""
    /\ result' = NoResult
    /\ calls' = 0
    /\ ended' = <<>>
    /\ UNCHANGED idx

\* The caller, after a call of decode(content) has ended, calls it on a text
\* again: decoder = JSONDecoder(content).
NewInstance ==
    /\ status \in {"returned", "raised"}
    /\ calls = 1
    /\ content \in SharedTexts
    /\ Len(past) < MaxInstances - 1
    /\ past' = Append(past, Outcome)
    /\ content' \in SharedTexts
    /\ n' = Len(content')
    /\ idx' = -1
    /\ stack' = <<>>
    /\ ret' = PyNone
    /\ status' = "new"
    /\ exc' = ""
    /\ error' = ""
    /\ result' = NoResult
    /\ calls' = 0
    /\ ended' = <<>>

(***************************************************************************)
(* The specification: JSONDecoder(text) for a text of the inputs, then the *)
(* routines, one step each.                                                *)
(***************************************************************************)

\* __init__
InitOn(texts) ==
    /\ content \in texts
    /\ n = Len(content)
    /\ idx = -1
    /\ stack = <<>>
    /\ ret = PyNone
    /\ status = "new"
    /\ exc = ""
    /\ error = ""
    /\ result = NoResult
    /\ calls = 0
    /\ past = <<>>
    /\ ended = <<>>

Init == InitOn(Inputs)

Next ==
    \/ DecodeCall
    \/ DecodeParseOne
    \/ DecodeTrail
    \/ DecodeEnd
    \/ SkipWhitespace
    \/ ParseOne
    \/ ObjectOpen
    \/ ObjectKey
    \/ ObjectGotKey
    \/ ObjectColon
    \/ ObjectValue
    \/ ObjectAssign
    \/ ObjectSep
    \/ ObjectAfterComma
    \/ ArrayOpen
    \/ ArrayElem
    \/ ArrayGotElem
    \/ ArraySep
    \/ ArrayAfterComma
    \/ StringOpen
    \/ StringChar
    \/ StringHexDigit
    \/ NumberCollect
    \/ NumberConvert
    \/ LiteralCollect
    \/ LiteralMatch
    \/ NewInstance

Spec == Init /\ [][Next]_vars

\* The same machine on the number tokens.
SpecNumber ==
    InitOn(CoverageInputs \cup NumberInputs \cup ExponentInputs \cup ZeroInputs)
        /\ [][Next]_vars

\* The same machine on the strings.
SpecString == InitOn(CoverageInputs \cup StringInputs) /\ [][Next]_vars

\* The same machine on the objects.
SpecObject == InitOn(CoverageInputs \cup ObjectInputs) /\ [][Next]_vars

\* The same machine on the top-level values and what follows them.
SpecTopLevel ==
    InitOn(CoverageInputs \cup ShortInputs \cup TopLevelInputs) /\ [][Next]_vars


\* The same machine on the strings with a control character or no end.
SpecStringEnd == InitOn(CoverageInputs \cup StringEndInputs) /\ [][Next]_vars


\* The same machine on the containers with a fault after an element.
SpecSeparator == InitOn(CoverageInputs \cup SeparatorInputs) /\ [][Next]_vars


\* The same machine on the objects with a fault at a key or at its colon.
SpecKey == InitOn(CoverageInputs \cup KeyInputs) /\ [][Next]_vars


\* The same machine on the texts with whitespace between their tokens.
SpecWhitespace == InitOn(CoverageInputs \cup WhitespaceInputs) /\ [][Next]_vars


\* The same machine on the texts that end with a container open.
SpecCut == InitOn(CoverageInputs \cup CutInputs) /\ [][Next]_vars


\* The same machine on the literals and the tokens that look like one.
SpecLiteral == InitOn(CoverageInputs \cup LiteralInputs) /\ [][Next]_vars


\* The same machine on every character where a value is expected.
SpecDispatch == InitOn(CoverageInputs \cup DispatchInputs) /\ [][Next]_vars


\* The same machine under a caller that calls decode(content) again and
\* again, on the same text and on others.
SpecShared == InitOn(SharedTexts) /\ [][Next]_vars


\* A step of a call of decode() that is under way.
Run == status = "running" /\ Next

\* Texts that go through every loop: scalars, every character where a value
\* is expected, and containers that end or are cut at every place.
LiveInputs == CoverageInputs \cup ScalarTexts \cup DispatchInputs \cup CutInputs

\* The machine on these texts, where a call that is under way goes on: the
\* interpreter runs a routine that was called until it returns or raises.
SpecLive == InitOn(LiveInputs) /\ [][Next]_vars /\ WF_vars(Run)

(***************************************************************************)
(* What the claims speak of.                                               *)
(***************************************************************************)

\* The module-level decode(text): the first call on a new instance, ended.
Returned == calls = 1 /\ status = "returned"
Raised == calls = 1 /\ status = "raised"
Done == Returned \/ Raised

\* The failure categories of the design, by the message the code raises.
Category(msg) ==
    CASE msg = "No input" -> "EmptyInput"
      [] msg = "Invalid JSON" -> "UnexpectedCharacter"
      [] msg = "Extra characters after JSON" -> "ExtraCharactersAfterValue"
      [] msg \in {"Object ends without }", "Array ends without ]"}
            -> "UnterminatedContainer"
      [] msg = "Keys must be strings" -> "NonStringKey"
      [] msg = "Key not followed by \":\"" -> "MissingColon"
      [] msg = "Keys must be separated by , " -> "MissingCommaOrBrace"
      [] msg = "Array elements must be separated with ," -> "MissingCommaOrBracket"
      [] msg = "Can't have two commas back to back" -> "DoubleComma"
      [] msg = "Can't end with a trailing comma" -> "TrailingComma"
      [] msg = "Unterminated string" -> "UnterminatedString"
      [] msg = "Unescaped control character in string" -> "UnescapedControlCharacter"
      [] msg \in {"\\ not followed by anything to escape", "Invalid escape"}
            -> "InvalidEscape"
      [] msg = "Invalid escape with \\u" -> "InvalidUnicodeEscape"
      [] msg \in {"Dot cannot be in the end", "Number cannot begin with 0",
                  "Invalid number"} -> "InvalidNumber"
      [] msg = "Invalid literal syntax" -> "InvalidLiteral"
      [] OTHER -> "none"

\* decode failed with a DecodeError of the category cat.
FailsWith(cat) == Raised /\ exc = "JSONDecodeError" /\ Category(error) = cat

AsciiDigit == 48..57

\* The whole text is one unquoted token: no character of it ends a token.
IsToken(text) == text # <<>> /\ \A i \in 1..Len(text) : ~IsDelimiter(text[i])

\* One or more ASCII digits.
AllDigits(s) == s # <<>> /\ \A i \in 1..Len(s) : s[i] \in AsciiDigit

\* An optional "-", one or more digits, then optionally one "." followed by
\* one or more digits.
NumberForm(text) ==
    LET u == IF text # <<>> /\ text[1] = 45 THEN Tail(text) ELSE text
        dot == IndexOf(u, {46}, 1)
    IN  /\ AllDigits(SubSeq(u, 1, dot - 1))
        /\ dot > Len(u) \/ AllDigits(SubSeq(u, dot + 1, Len(u)))

\* C2: a token that starts with "-" or a digit and has not the form of a
\* number makes decode fail with InvalidNumber, a token that starts with "+"
\* or "." makes decode fail, and decode returns only on a token of the form.
C2_OnlyNumberForm ==
    (Done /\ IsToken(content)) =>
        /\ (content[1] \in AsciiDigit \cup {45} /\ ~NumberForm(content))
              => FailsWith("InvalidNumber")
        /\ content[1] \in {43, 46} => Raised
        /\ (content[1] \in AsciiDigit \cup {45, 43, 46} /\ Returned)
              => NumberForm(content)

\* C3: a number token that holds "e" or "E" makes decode fail with
\* InvalidNumber.
C3_NoExponent ==
    (Done /\ IsToken(content) /\ content[1] \in AsciiDigit \cup {45}
          /\ \E i \in 1..Len(content) : content[i] \in {101, 69})
        => FailsWith("InvalidNumber")

\* The digits of the token start with "0" followed by another digit.
LeadingZero(text) ==
    LET u == IF text # <<>> /\ text[1] = 45 THEN Tail(text) ELSE text
    IN  Len(u) >= 2 /\ u[1] = 48 /\ u[2] \in AsciiDigit

\* C4: a number whose digits start with "0" followed by another digit, with
\* or without a minus sign, makes decode fail with InvalidNumber; 0, -0, 0.5
\* and 0.01 are accepted.
C4_LeadingZero ==
    (Done /\ IsToken(content) /\ content[1] \in AsciiDigit \cup {45}) =>
        /\ LeadingZero(content) => FailsWith("InvalidNumber")
        /\ content = Str(<<"0">>) => Returned /\ result = PyInt(0)
        /\ content = Str(<<"-", "0">>) => Returned /\ result = PyInt(0)
        /\ content = Str(<<"0", ".", "5">>) => Returned /\ result = PyFloat(FALSE, 5, -1)
        /\ content = Str(<<"0", ".", "0", "1">>)
              => Returned /\ result = PyFloat(FALSE, 1, -2)

(***************************************************************************)
(* The reference decoder: json.loads of the standard library, on the       *)
(* grammar of the design (no exponent; whitespace is space, tab, LF, CR).  *)
(* A position is the place of the next character of the text, from 1.      *)
(***************************************************************************)

RefFail == [ok |-> FALSE, v |-> PyNone, p |-> 0]
RefOk(v, p) == [ok |-> TRUE, v |-> v, p |-> p]

At(text, p) == IF p <= Len(text) THEN text[p] ELSE NoneChar

RECURSIVE RefSkip(_, _)
RefSkip(text, p) ==
    IF At(text, p) \in {32, 9, 10, 13} THEN RefSkip(text, p + 1) ELSE p

\* The place after the run of ASCII digits at p.
RECURSIVE RefDigitsEnd(_, _)
RefDigitsEnd(text, p) ==
    IF At(text, p) \in AsciiDigit THEN RefDigitsEnd(text, p + 1) ELSE p

\* The number the ASCII digits text[p..q-1] denote.
RECURSIVE RefDigits(_, _, _)
RefDigits(text, p, q) ==
    IF q <= p THEN 0 ELSE 10 * RefDigits(text, p, q - 1) + (text[q - 1] - 48)

\* -? (0 | [1-9][0-9]*) (. [0-9]+)?
RefNumber(text, p) ==
    LET neg == At(text, p) = 45
        q == IF neg THEN p + 1 ELSE p
        e == RefDigitsEnd(text, q)
        f == IF At(text, e) = 46 THEN RefDigitsEnd(text, e + 1) ELSE e
        isFloat == f > e + 1
    IN  IF e = q \/ (text[q] = 48 /\ e > q + 1) THEN RefFail
        ELSE IF isFloat
        THEN RefOk(PyFloat(neg, RefDigits(text, q, e) * 10 ^ (f - e - 1)
                                  + RefDigits(text, e + 1, f),
                           -(f - e - 1)), f)
        ELSE RefOk(PyInt((IF neg THEN -1 ELSE 1) * RefDigits(text, q, e)), e)

RefHexValue(c) ==
    IF c \in 48..57 THEN c - 48
    ELSE IF c \in 65..70 THEN c - 65 + 10
    ELSE IF c \in 97..102 THEN c - 97 + 10
    ELSE -1

\* The code point of the escape backslash-u at p and its four hexadecimal
\* digits, -1 if there is none.
RefUnicode(text, p) ==
    IF /\ At(text, p) = 92 /\ At(text, p + 1) = 117
       /\ \A i \in 2..5 : RefHexValue(At(text, p + i)) >= 0
    THEN 4096 * RefHexValue(text[p + 2]) + 256 * RefHexValue(text[p + 3])
           + 16 * RefHexValue(text[p + 4]) + RefHexValue(text[p + 5])
    ELSE -1

RefEscape(c) ==
    CASE c = 34 -> 34 [] c = 92 -> 92 [] c = 47 -> 47 [] c = 98 -> 8
      [] c = 102 -> 12 [] c = 110 -> 10 [] c = 114 -> 13 [] c = 116 -> 9
      [] OTHER -> -1

\* The rest of a string, from p, after the characters acc.  The escapes of
\* a high surrogate and of a low surrogate, one after the other, are the one
\* character of the pair.
RECURSIVE RefChars(_, _, _)
RefChars(text, p, acc) ==
    LET c == At(text, p)
        u == RefUnicode(text, p)
        low == RefUnicode(text, p + 6)
    IN  IF c = NoneChar \/ c < 32 THEN RefFail
        ELSE IF c = 34 THEN RefOk(PyStr(acc), p + 1)
        ELSE IF c # 92 THEN RefChars(text, p + 1, Append(acc, c))
        ELSE IF RefEscape(At(text, p + 1)) >= 0
        THEN RefChars(text, p + 2, Append(acc, RefEscape(At(text, p + 1))))
        ELSE IF u < 0 THEN RefFail
        ELSE IF u \in 55296..56319 /\ low \in 56320..57343
        THEN RefChars(text, p + 12,
                      Append(acc, 65536 + (u - 55296) * 1024 + (low - 56320)))
        ELSE RefChars(text, p + 6, Append(acc, u))

RefString(text, p) == RefChars(text, p + 1, <<>>)

RefWord(text, p, word) ==
    /\ p + Len(word) - 1 <= Len(text)
    /\ SubSeq(text, p, p + Len(word) - 1) = word

RECURSIVE RefValue(_, _)
RECURSIVE RefElements(_, _, _)
RECURSIVE RefMembers(_, _, _)

\* The elements of an array from p, after the elements acc.
RefElements(text, p, acc) ==
    LET v == RefValue(text, p)
        q == RefSkip(text, v.p)
    IN  IF ~v.ok THEN RefFail
        ELSE IF At(text, q) = 44
        THEN RefElements(text, RefSkip(text, q + 1), Append(acc, v.v))
        ELSE IF At(text, q) = 93 THEN RefOk(PyList(Append(acc, v.v)), q + 1)
        ELSE RefFail

\* The members of an object from p, after the members of obj: a key that
\* obj has already takes the new value.
RefMembers(text, p, obj) ==
    LET k == RefString(text, p)
        c == RefSkip(text, k.p)
        v == RefValue(text, RefSkip(text, c + 1))
        q == RefSkip(text, v.p)
        new == [x \in DOMAIN obj \cup {k.v.v} |-> IF x = k.v.v THEN v.v ELSE obj[x]]
    IN  IF At(text, p) # 34 THEN RefFail
        ELSE IF ~k.ok \/ At(text, c) # 58 THEN RefFail
        ELSE IF ~v.ok THEN RefFail
        ELSE IF At(text, q) = 44 THEN RefMembers(text, RefSkip(text, q + 1), new)
        ELSE IF At(text, q) = 125 THEN RefOk(PyDict(new), q + 1)
        ELSE RefFail

RefValue(text, p) ==
    LET c == At(text, p) IN
    IF c = 123
    THEN LET q == RefSkip(text, p + 1) IN
         IF At(text, q) = 125 THEN RefOk(PyDict(<<>>), q + 1)
         ELSE RefMembers(text, q, <<>>)
    ELSE IF c = 91
    THEN LET q == RefSkip(text, p + 1) IN
         IF At(text, q) = 93 THEN RefOk(PyList(<<>>), q + 1)
         ELSE RefElements(text, q, <<>>)
    ELSE IF c = 34 THEN RefString(text, p)
    ELSE IF c = 45 \/ c \in AsciiDigit THEN RefNumber(text, p)
    ELSE IF RefWord(text, p, Str(<<"t", "r", "u", "e">>)) THEN RefOk(PyBool(TRUE), p + 4)
    ELSE IF RefWord(text, p, Str(<<"f", "a", "l", "s", "e">>))
         THEN RefOk(PyBool(FALSE), p + 5)
    ELSE IF RefWord(text, p, Str(<<"n", "u", "l", "l">>)) THEN RefOk(PyNone, p + 4)
    ELSE RefFail

\* json.loads(text): the value of the text, if the text is of the grammar.
RefDecode(text) ==
    LET v == RefValue(text, RefSkip(text, 1)) IN
    IF v.ok /\ RefSkip(text, v.p) = Len(text) + 1 THEN v ELSE RefFail

\* The backslashes that stand straight before the place p.
RECURSIVE BackslashesBefore(_, _)
BackslashesBefore(text, p) ==
    IF p > 1 /\ text[p - 1] = 92 THEN 1 + BackslashesBefore(text, p - 1) ELSE 0

\* The text holds the escape of a high surrogate (D800-DBFF) directly
\* followed by the escape of a low surrogate (DC00-DFFF).
HasSurrogatePair(text) ==
    \E p \in 1..Len(text) :
        /\ BackslashesBefore(text, p) % 2 = 0
        /\ RefUnicode(text, p) \in 55296..56319
        /\ RefUnicode(text, p + 6) \in 56320..57343

\* C1, as claimed: on every text of the grammar decode returns the value
\* the reference decoder returns.
C1_EqualsReference ==
    (Done /\ RefDecode(content).ok)
        => Returned /\ result = RefDecode(content).v

\* C1, amended: on every text of the grammar that holds no escape of a high
\* surrogate directly followed by the escape of a low surrogate, decode
\* returns the value the reference decoder returns.
C1_EqualsReferenceButPairs ==
    (Done /\ RefDecode(content).ok /\ ~HasSurrogatePair(content))
        => Returned /\ result = RefDecode(content).v

\* C1 witness: an object of an array and a literal, with a number, a string
\* with escapes and whitespace, has been decoded.
C1_Witness ==
    /\ Returned
    /\ content \in CoverageInputs
    /\ RefDecode(content).ok
    /\ ~HasSurrogatePair(content)
    /\ result.t = "object"

\* C5: a call of decode returns a value or fails with a JSONDecodeError, and
\* a failing call yields no value.
C5_ValueOrDecodeError ==
    Done =>
        \/ Returned /\ result # NoResult
        \/ Raised /\ exc = "JSONDecodeError" /\ result = NoResult

\* C9: in a string, each escape of " \ / n r t b f gives its one character,
\* each backslash-u escape gives the one character whose code point its four
\* hexadecimal digits (of either case) denote, whatever stands next to it.
C9_EscapesDecoded ==
    Done => \A c \in EscapeCases :
                content = c.text => Returned /\ result = PyStr(c.value)

\* C9 witness: the escapes of the two surrogates of a pair, read as two
\* characters.
C9_Witness ==
    /\ Returned
    /\ content = Str(<<"\"", "\\", "u", "D", "8", "3", "D",
                       "\\", "u", "d", "e", "0", "0", "\"">>)
    /\ result = PyStr(<<55357, 56832>>)

HexDigitChars == (48..57) \cup (65..70) \cup (97..102)

\* C10: in a string that starts with a backslash: the end of the input
\* there fails with InvalidEscape; a character outside " \ / n r t b f u
\* fails with InvalidEscape; a "u" followed by fewer than four characters
\* before the end of the input, or by four characters of which one is not a
\* hexadecimal digit, fails with InvalidUnicodeEscape.
C10_MalformedEscape ==
    (Done /\ Len(content) >= 2 /\ content[1] = 34 /\ content[2] = 92) =>
        /\ Len(content) = 2 => FailsWith("InvalidEscape")
        /\ (Len(content) > 2 /\ content[3] \notin {34, 92, 47, 110, 114, 116, 98, 102, 117})
              => FailsWith("InvalidEscape")
        /\ (Len(content) > 2 /\ content[3] = 117 /\ Len(content) < 7)
              => FailsWith("InvalidUnicodeEscape")
        /\ (Len(content) >= 7 /\ content[3] = 117
               /\ \E i \in 4..7 : content[i] \notin HexDigitChars)
              => FailsWith("InvalidUnicodeEscape")

\* C6: after the top-level value and the whitespace that follows it, any
\* character left makes decode fail with ExtraCharactersAfterValue, and
\* decode returns only with the whole input consumed.
C6_NothingAfterValue ==
    /\ Returned => idx = n - 1
    /\ Done => \A c \in TrailingCases :
                   content = c.text =>
                       IF c.rest = <<>> THEN Returned
                       ELSE FailsWith("ExtraCharactersAfterValue")

\* C6 witness: the call on an empty object, a space and one more character
\* has failed.
C6_Witness ==
    /\ Raised
    /\ content = Str(<<"{", "}", " ", "x">>)
    /\ error = "Extra characters after JSON"

\* C7: an object maps each of its keys to the value of the last pair with
\* that key in the text.
C7_LastKeyWins ==
    Done => \A c \in ObjectCases :
                content = c.text => Returned /\ result = c.value

\* C7 witness: the object {"a":1,"b":2,"a":true} has been decoded.
C7_Witness ==
    /\ Returned
    /\ content = Str(<<"{", "\"", "a", "\"", ":", "1", ",", "\"", "b", "\"", ":", "2",
                       ",", "\"", "a", "\"", ":", "t", "r", "u", "e", "}">>)
    /\ result = PyDict(Str(<<"a">>) :> PyBool(TRUE) @@ Str(<<"b">>) :> PyInt(2))

\* C8: a text that is one value of any type, between whitespace or not,
\* decodes to that value.
C8_AnyTypeAtTopLevel ==
    Done => \A c \in TopLevelCases :
                content = c.text => Returned /\ result = c.value

\* C8 witness: null between a tab and a CR has been decoded.
C8_Witness ==
    /\ Returned
    /\ content = Str(<<"TAB", "n", "u", "l", "l", "CR">>)
    /\ result = PyNone


C12_Separators ==
    Done => \A c \in SeparatorCases :
                content = c.text => FailsWith(c.category)

\* C12 witness: the call on an object with two commas after its first pair
\* has failed.
C12_Witness ==
    /\ content = Str(<<"{", "\"", "b", "\"", ":", "1", " ", ",", "LF", ",">>)
    /\ FailsWith("DoubleComma")


\* C13: where the first or a later key of an object is expected, an unquoted
\* word, a word in single quotes, a number, true, false, null, a bracket or
\* any other character that is neither a double quote nor "}" makes decode
\* fail with NonStringKey; a key followed (after optional whitespace) by
\* anything but ":" makes decode fail with MissingColon.
C13_KeysAndColons ==
    Done => \A c \in KeyCases :
                content = c.text => FailsWith(c.category)

\* C13 witness: the call on {true:1} has failed.
C13_Witness ==
    /\ content = Str(<<"{", "t", "r", "u", "e", ":", "1", "}">>)
    /\ FailsWith("NonStringKey")


C15_UnterminatedContainer ==
    Done => \A c \in CutCases :
                (content = c.text /\ c.place \in {"open", "comma", "element"})
                    => FailsWith("UnterminatedContainer")


\* C16, as claimed: true, false and null, up to the next whitespace, comma,
\* closing bracket or the end of the input, decode to their values; every
\* other token, cut short, lengthened or with a capital anywhere, makes
\* decode fail with InvalidLiteral.
C16_OnlyThreeWords ==
    Done => \A c \in LiteralCases :
                content = c.text =>
                    IF c.kind = "word" THEN Returned /\ result = c.value
                    ELSE FailsWith("InvalidLiteral")

\* C16, amended: true, false and null decode to their values; every other
\* token that starts with t, f or n makes decode fail with InvalidLiteral; a
\* token that starts with a capital, such as True, makes decode fail with
\* UnexpectedCharacter.
C16_OnlyThreeWordsLowerCase ==
    Done => \A c \in LiteralCases :
                content = c.text =>
                    CASE c.kind = "word" -> Returned /\ result = c.value
                      [] c.kind = "wrong" -> FailsWith("InvalidLiteral")
                      [] c.kind = "capital" -> FailsWith("UnexpectedCharacter")

\* C16 witness: the call on an array of the token nullx has failed.
C16_Witness ==
    /\ content = Str(<<"[", "n", "u", "l", "l", "x", "]">>)
    /\ FailsWith("InvalidLiteral")


\* The step leaves the routine fn in the place of _parse_one, at its start,
\* and the routines that wait below as they are.
Chosen(fn) ==
    /\ status' = "running"
    /\ Len(stack') = Len(stack)
    /\ stack'[Len(stack')].fn = fn
    /\ stack'[Len(stack')].pc = "open"
    /\ SubSeq(stack', 1, Len(stack) - 1) = SubSeq(stack, 1, Len(stack) - 1)

\* The step ends the call of decode with a failure of the category cat.
FailsNext(cat) ==
    status' = "raised" /\ exc' = "JSONDecodeError" /\ Category(error') = cat

\* C17: the step of the dispatcher consumes nothing and, by the next
\* character, chooses the object parser on "{", the array parser on "[",
\* the string parser on a double quote, the literal parser on t, f and n,
\* the number parser on "-" and the digits 0-9, fails with
\* UnexpectedCharacter on any other character and with EmptyInput at the end
\* of the input.
C17_DispatchByCharacter ==
    [][Running("parse_one", "open") =>
          /\ idx' = idx
          /\ CASE Peek = NoneChar -> FailsNext("EmptyInput")
               [] Peek = CodePoint("{") -> Chosen("parse_object")
               [] Peek = CodePoint("[") -> Chosen("parse_array")
               [] Peek = CodePoint("\"") -> Chosen("parse_string")
               [] Peek \in Chars(<<"t", "f", "n">>) -> Chosen("parse_literal")
               [] Peek \in AsciiDigit \cup {CodePoint("-")} -> Chosen("parse_number")
               [] OTHER -> FailsNext("UnexpectedCharacter")]_vars


\* The call that has ended now ended as the earlier call o did: both with
\* the same value, or both with a failure of the same category.
SameOutcome(o) ==
    /\ o.status = status
    /\ status = "returned" => o.result = result
    /\ status = "raised" => o.exc = exc /\ Category(o.error) = Category(error)

\* C18: two calls of decode(content) on the same text, whatever calls on
\* other texts or on the same text come before or between them, end with
\* equal values or with failures of the same category.
C18_SameTextSameOutcome ==
    Done => \A i \in 1..Len(past) : past[i].text = content => SameOutcome(past[i])

\* C18 witness: a text has been decoded to the value it gave two calls
\* before, with a call on another text, which failed, between the two.
C18_Witness ==
    /\ Returned
    /\ Len(past) = 2
    /\ past[1].text = content
    /\ past[1].result = result
    /\ past[2].text # content
    /\ past[2].status = "raised"


\* C19: the index of a new instance is -1; it stays between -1 and the
\* place of the last character; a step of a call leaves it or moves it
\* forward by the characters that one or two advances consume, an advance
\* at the end of the input consuming none; it never moves back.
C19_CursorOnlyForward ==
    /\ idx = -1
    /\ [](idx \in -1..(n - 1))
    /\ [][IF past' = past
          THEN idx' >= idx /\ idx' \in {idx, AfterNext, AfterSecond}
          ELSE idx' = -1]_vars

\* C19 witness: the advance at the end of the text "a has returned no
\* character and left the index at the last character.
C19_Witness ==
    /\ content = Str(<<"\"", "a">>)
    /\ Running("parse_string", "loop")
    /\ Top.char = NoneChar
    /\ idx = n - 1


\* The step leaves the routine that runs at the same place of its loop: it
\* neither left the loop nor failed.
SamePlace ==
    /\ status = "running"
    /\ status' = "running"
    /\ Len(stack') = Len(stack)
    /\ stack'[Len(stack')].fn = Top.fn
    /\ stack'[Len(stack')].pc = Top.pc

\* C20, as claimed: a call of decode() ends, returning a value or failing,
\* and every iteration of a loop that neither leaves the loop nor fails has
\* consumed at least one character.
C20_EveryIterationConsumes ==
    /\ (status = "running") ~> (status \in {"returned", "raised"})
    /\ [][SamePlace => idx' > idx]_vars

\* C20, amended: a call of decode() ends, returning a value or failing, and
\* every iteration of a loop that neither leaves the loop nor fails has
\* consumed at least one character, but for the iteration of the string
\* parser whose advance finds the end of the input: it consumes nothing and
\* the iteration after it fails.
C20_Terminates ==
    /\ (status = "running") ~> (status \in {"returned", "raised"})
    /\ [][SamePlace =>
            \/ idx' > idx
            \/ /\ Top.fn = "parse_string"
               /\ stack'[Len(stack')].char = NoneChar
               /\ Top.char # NoneChar]_vars
    /\ [][(Running("parse_string", "loop") /\ Top.char = NoneChar)
            => status' = "raised"]_vars

\* C20 witness: the call on an object that holds an array, strings with
\* escapes, a number, a literal and whitespace has gone through every loop
\* and returned at the end of the text.
C20_Witness ==
    /\ status = "returned"
    /\ calls = 1
    /\ stack = <<>>
    /\ idx = n - 1
    /\ content \in CoverageInputs


\* The call of decode() on the instance that ended as ended[i] returned a
\* value.
ReturnedAt(i) == ended[i].status = "returned"

\* C21: when a call of decode() on an instance returns a value the index is
\* at the last character of the text; the index stays there, and every call
\* of decode() on the instance that ends after that one fails with the
\* JSONDecodeError "No input" (EmptyInput): no call returns the value again.
C21_NoValueTwice ==
    /\ status = "returned" => idx = n - 1
    /\ \A i \in 1..Len(ended) :
          ReturnedAt(i) =>
              /\ idx = n - 1
              /\ \A j \in (i + 1)..Len(ended) :
                    /\ ended[j].status = "raised"
                    /\ ended[j].exc = "JSONDecodeError"
                    /\ Category(ended[j].error) = "EmptyInput"

\* C21 witness: on an instance whose text is not empty the first call of
\* decode() returned a value and the second has failed with "No input".
C21_Witness ==
    /\ n > 0
    /\ Len(ended) = 2
    /\ ReturnedAt(1)
    /\ status = "raised"
    /\ error = "No input"
    /\ ended[2] = Ended("raised", "JSONDecodeError", "No input")
    /\ idx = n - 1

====
